---- MODULE Spec2Model ----
(***************************************************************************)
(* Model of src/streams/early_zip_readable_streams.ts:                     *)
(*   - earlyZipReadableStreams (lines 85-109): the merged ReadableStream,  *)
(*     its pull and cancel algorithms, the source readers they drive and   *)
(*     the consumer that reads or cancels the merged output;               *)
(*   - LimitedTransformStream (lines 188-216): the counting transform.     *)
(* The platform's ReadableStream / TransformStream controllers are         *)
(* modelled as far as the two components drive them (queue, high water     *)
(* mark, pulling / pullAgain, closeRequested, stored error).               *)
(***************************************************************************)
EXTENDS Integers, Sequences, FiniteSets, TLC

\* ---------------------------------------------------------------- bounds
MaxSources == 2
MaxLen == 2
MaxSize == 2
MaxChunks == 3

\* Mutant of HighWaterMark: the stream is built with a larger high water mark.
MutHighWaterMark == 1 + 2

\* Default queuing strategy of `new ReadableStream({pull, cancel})` (no
\* strategy argument): CountQueuingStrategy with highWaterMark 1.
HighWaterMark == 1

\* Default strategy of the readable side of `super({transform})` (line 201,
\* no strategy arguments): highWaterMark 0.
LtReadableHWM == 0

\* ---------------------------------------------------------------- state
VARIABLES
  n,            \* readers.length
  srcLen,       \* [0..n-1 -> Nat]: items source i yields before it ends
  srcState,     \* state of source stream i: "readable" | "closed" | "errored"
  srcRead,      \* number of items source i has handed to a read()
  readCalls,    \* number of readers[i].read() invocations
  cancelCalls,  \* sequence of reasons of readers[i].cancel(reason) invocations
  pullPc,       \* "idle" | "reading" | "settled" | "cancelling"
  pullIdx,      \* the loop variable i of pull
  readRes,      \* settled result of the awaited read: [kind, value]
  exBatch,      \* promises of the cancel batch of pull (lines 94-98)
  ccBatch,      \* promises of the cancel batch of cancel (line 106)
  cancelAlg,    \* promise of the cancel algorithm: "none"|"pending"|"fulfilled"|"rejected"
  ccReason,     \* reason handed to the cancel algorithm
  ccErr,        \* rejection value of the cancel algorithm
  started,      \* controller [[started]]
  pulling,      \* controller [[pulling]]
  pullAgain,    \* controller [[pullAgain]]
  closeRequested, \* controller [[closeRequested]]
  outState,     \* merged output: "readable" | "closed" | "errored"
  outErr,       \* stored error of the merged output
  outQueue,     \* controller queue of the merged output
  readPending,  \* the consumer has a read request pending on the output
  delivered,    \* items the consumer has received, in order
  consumerEnd,  \* what the consumer's last read saw: "none" | "done" | "error"
  \* LimitedTransformStream and the pipe through it
  size,         \* constructor argument size
  optError,     \* options.error
  ltSrc,        \* the chunks of the source piped through the transform
  ltPos,        \* number of chunks handed to transform so far
  read,         \* the private field #read
  ltEnqueued,   \* chunks handed to controller.enqueue, in order
  ltBackpressure, \* [[backpressure]] of the transform stream
  ltWritable,   \* writable side: "writable" | "closed" | "errored"
  ltReadable,   \* readable side: "readable" | "closed" | "errored"
  ltErr,        \* stored error of the readable side
  ltQueue,      \* queue of the readable side
  ltCloseRequested, \* [[closeRequested]] of the readable side
  ltReadPending, \* the consumer has a read request pending
  ltDelivered,  \* chunks the consumer has received, in order
  ltEnd         \* what the consumer's last read saw: "none" | "done" | "error"

zipVars == <<n, srcLen, srcState, srcRead, readCalls, cancelCalls, pullPc,
             pullIdx, readRes, exBatch, ccBatch, cancelAlg, ccReason, ccErr,
             started, pulling, pullAgain, closeRequested, outState, outErr,
             outQueue, readPending, delivered, consumerEnd>>

ltVars == <<size, optError, ltSrc, ltPos, read, ltEnqueued, ltBackpressure,
            ltWritable, ltReadable, ltErr, ltQueue, ltCloseRequested,
            ltReadPending,
            ltDelivered, ltEnd>>

vars == <<zipVars, ltVars>>

Src == 0 .. (n - 1)

NoItem == <<-1, -1>>
NoErr == <<"none", -1>>
NoReason == <<"none", -1>>
NoRes == [kind |-> "none", value |-> NoItem]

\* The r-th chunk (0-based) of source i.
Item(i, r) == <<i, r>>

\* `Stream at index ${i} ended` (line 96): the reason names the index.
EndedReason(i) == <<"ended", i>>
UserReason(r) == <<"user", r>>
\* The reasons a consumer is modelled to cancel with.
UserReasons == {UserReason(1), UserReason(2)}

ReadError(i) == <<"readError", i>>
CancelError(j) == <<"cancelError", j>>
TypeError == <<"TypeError", -1>>

\* ------------------------------------------------- platform: controller
\* Mutant of CanCloseOrEnqueue: close and enqueue are not refused on an
\* output that is closed, errored or close-requested.
MutCanCloseOrEnqueue(st, cr) == TRUE

\* ReadableStreamDefaultControllerCanCloseOrEnqueue
CanCloseOrEnqueue(st, cr) == st = "readable" /\ ~cr

\* ReadableStreamDefaultControllerShouldCallPull
ShouldCallPull(st, cr, q, rp) ==
  /\ CanCloseOrEnqueue(st, cr)
  /\ started
  /\ (rp \/ HighWaterMark - Len(q) > 0)

\* readers[i].read() on source i: pending while the source is readable,
\* already settled when the source is closed or errored.
IssueRead(i) ==
  IF srcState[i] = "readable" THEN [pc |-> "reading", res |-> NoRes]
  ELSE IF srcState[i] = "closed"
       THEN [pc |-> "settled", res |-> [kind |-> "done", value |-> NoItem]]
       ELSE [pc |-> "settled", res |-> [kind |-> "error", value |-> NoItem]]

\* The promise reader.cancel() returns, by the state of the source stream
\* (ReadableStreamCancel): a readable source runs its cancel algorithm.
CancelPromise(j) ==
  IF srcState[j] = "readable" THEN "pending"
  ELSE IF srcState[j] = "closed" THEN "fulfilled" ELSE "rejected"

\* Promise.all over a batch: rejected as soon as one member is rejected,
\* fulfilled once all members are fulfilled.
AllRejected(batch) == \E j \in Src : batch[j] = "rejected"
AllFulfilled(batch) == \A j \in Src : batch[j] = "fulfilled"
AllSettled(batch) == AllRejected(batch) \/ AllFulfilled(batch)

\* ------------------------------------------------------------------ Init
ZipInit ==
  /\ n \in 1 .. MaxSources
  /\ srcLen \in [0 .. (n - 1) -> 0 .. MaxLen]
  /\ srcState = [i \in 0 .. (n - 1) |-> "readable"]
  /\ srcRead = [i \in 0 .. (n - 1) |-> 0]
  /\ readCalls = [i \in 0 .. (n - 1) |-> 0]
  /\ cancelCalls = [i \in 0 .. (n - 1) |-> <<>>]
  /\ pullPc = "idle"
  /\ pullIdx = 0
  /\ readRes = NoRes
  /\ exBatch = [i \in 0 .. (n - 1) |-> "none"]
  /\ ccBatch = [i \in 0 .. (n - 1) |-> "none"]
  /\ cancelAlg = "none"
  /\ ccReason = NoReason
  /\ ccErr = NoErr
  /\ started = FALSE
  /\ pulling = FALSE
  /\ pullAgain = FALSE
  /\ closeRequested = FALSE
  /\ outState = "readable"
  /\ outErr = NoErr
  /\ outQueue = <<>>
  /\ readPending = FALSE
  /\ delivered = <<>>
  /\ consumerEnd = "none"

\* ------------------------------------------------- pieces of the actions
\* pull is invoked (line 90): the async function runs to its first await,
\* readers[0].read() (lines 91-92).
InvokePull ==
  /\ pulling' = TRUE
  /\ pullIdx' = 0
  /\ readCalls' = [readCalls EXCEPT ![0] = @ + 1]
  /\ pullPc' = IssueRead(0).pc
  /\ readRes' = IssueRead(0).res

\* ReadableStreamDefaultControllerCallPullIfNeeded while no pull is running.
CallPullIfNeeded(st, cr, q, rp) ==
  IF ShouldCallPull(st, cr, q, rp)
  THEN /\ InvokePull
       /\ pullAgain' = FALSE
  ELSE UNCHANGED <<pulling, pullIdx, readCalls, pullPc, readRes, pullAgain>>

\* ReadableStreamDefaultControllerError, reached when the promise of pull
\* rejects: a no-op unless the output is still readable.
PullRejects(e) ==
  /\ pullPc' = "idle"
  /\ readRes' = NoRes
  /\ IF outState = "readable"
     THEN /\ outState' = "errored"
          /\ outErr' = e
          /\ outQueue' = <<>>
          /\ readPending' = FALSE
          /\ consumerEnd' = IF readPending THEN "error" ELSE consumerEnd
     ELSE UNCHANGED <<outState, outErr, outQueue, readPending, consumerEnd>>
  /\ UNCHANGED <<pulling, pullAgain, closeRequested, delivered>>


\* The promise of pull fulfils (the async function returned): [[pulling]]
\* is cleared and a pull recorded in [[pullAgain]] is made if still needed.
PullReturns(st, cr, q, rp, again) ==
  IF again /\ ShouldCallPull(st, cr, q, rp)
  THEN /\ InvokePull
       /\ pullAgain' = FALSE
  ELSE /\ pulling' = FALSE
       /\ pullAgain' = FALSE
       /\ pullPc' = "idle"
       /\ pullIdx' = 0
       /\ readRes' = NoRes
       /\ UNCHANGED readCalls

\* Rejection value of reader j's cancel promise.
SrcError(j) == IF srcState[j] = "errored" THEN ReadError(j) ELSE CancelError(j)

\* readers.map((reader) => reader.cancel(reason)) (lines 95-97 and 106):
\* one cancel per reader, none awaiting another. A readable source is closed
\* by it and its pending read request, if any, resolves with done.
CancelAllReaders(reason) ==
  /\ cancelCalls' = [j \in Src |-> Append(cancelCalls[j], reason)]
  /\ srcState' = [j \in Src |->
                    IF srcState[j] = "readable" THEN "closed" ELSE srcState[j]]

\* ------------------------------------------------------- source streams
\* The pending read on source pullIdx settles: with the next item, with
\* done when the source has no more items, or with a failure of the source.
SrcReadSettle ==
  /\ UNCHANGED ltVars
  /\ pullPc = "reading"
  /\ srcState[pullIdx] = "readable"
  /\ \/ /\ srcRead[pullIdx] < srcLen[pullIdx]
        /\ readRes' = [kind |-> "value",
                       value |-> Item(pullIdx, srcRead[pullIdx])]
        /\ srcRead' = [srcRead EXCEPT ![pullIdx] = @ + 1]
        /\ UNCHANGED srcState
     \/ /\ srcRead[pullIdx] = srcLen[pullIdx]
        /\ readRes' = [kind |-> "done", value |-> NoItem]
        /\ srcState' = [srcState EXCEPT ![pullIdx] = "closed"]
        /\ UNCHANGED srcRead
     \/ /\ readRes' = [kind |-> "error", value |-> NoItem]
        /\ srcState' = [srcState EXCEPT ![pullIdx] = "errored"]
        /\ UNCHANGED srcRead
  /\ pullPc' = "settled"
  /\ UNCHANGED <<n, srcLen, readCalls, cancelCalls, pullIdx, exBatch, ccBatch,
                 cancelAlg, ccReason, ccErr, started, pulling, pullAgain,
                 closeRequested, outState, outErr, outQueue, readPending,
                 delivered, consumerEnd>>

\* The cancel algorithm of source j, started by the first cancel of the
\* readable source, settles: it is acknowledged or it fails.
SrcCancelSettle(j, res) ==
  /\ UNCHANGED ltVars
  /\ exBatch[j] = "pending" \/ ccBatch[j] = "pending"
  /\ exBatch' = [exBatch EXCEPT ![j] = IF @ = "pending" THEN res ELSE @]
  /\ ccBatch' = [ccBatch EXCEPT ![j] = IF @ = "pending" THEN res ELSE @]
  /\ UNCHANGED <<n, srcLen, srcState, srcRead, readCalls, cancelCalls, pullPc,
                 pullIdx, readRes, cancelAlg, ccReason, ccErr, started,
                 pulling, pullAgain, closeRequested, outState, outErr,
                 outQueue, readPending, delivered, consumerEnd>>

\* ------------------------------------------------------------ pull (90-104)
\* Mutant of InRange: the loop bound is off by one, the last reader is left out.
MutInRange(i) == i < n - 1

\* Mutant of NextIdx: the loop steps over a reader.
MutNextIdx(i) == i + 2

\* Line 91, the loop of pull: `i < readers.length` and `++i`.
InRange(i) == i < n

NextIdx(i) == i + 1

\* Mutant of ReturnAfterClose: the `return` is missing, the loop goes on to
\* the next reader after controller.close().
MutReturnAfterClose(st, q) ==
  IF pullIdx + 1 < n
  THEN /\ pullIdx' = pullIdx + 1
       /\ readCalls' = [readCalls EXCEPT ![pullIdx + 1] = @ + 1]
       /\ pullPc' = IssueRead(pullIdx + 1).pc
       /\ readRes' = IssueRead(pullIdx + 1).res
       /\ UNCHANGED <<pulling, pullAgain>>
  ELSE PullReturns(st, TRUE, q, FALSE, pullAgain)

\* Line 100, `return` after controller.close(): pull ends here, its promise
\* fulfils and no further reader is read.
ReturnAfterClose(st, q) == PullReturns(st, TRUE, q, FALSE, pullAgain)

\* Line 102-103 and the loop header 91: the read gave a value; enqueue it
\* and go on to the next reader, or return when the round is complete.
PullOnValue ==
  /\ UNCHANGED ltVars
  /\ pullPc = "settled"
  /\ readRes.kind = "value"
  /\ IF ~CanCloseOrEnqueue(outState, closeRequested)
     THEN /\ PullRejects(TypeError)
          /\ UNCHANGED <<pullIdx, readCalls>>
     ELSE LET v == readRes.value
              q2 == IF readPending THEN outQueue ELSE Append(outQueue, v)
              again == pullAgain
                       \/ ShouldCallPull(outState, closeRequested, q2, FALSE)
          IN /\ outQueue' = q2
             /\ delivered' = IF readPending THEN Append(delivered, v)
                             ELSE delivered
             /\ readPending' = FALSE
             /\ IF InRange(NextIdx(pullIdx))
                THEN /\ pullIdx' = NextIdx(pullIdx)
                     /\ readCalls' = [readCalls EXCEPT
                                        ![NextIdx(pullIdx)] = @ + 1]
                     /\ pullPc' = IssueRead(NextIdx(pullIdx)).pc
                     /\ readRes' = IssueRead(NextIdx(pullIdx)).res
                     /\ pullAgain' = again
                     /\ UNCHANGED pulling
                ELSE PullReturns(outState, closeRequested, q2, FALSE, again)
             /\ UNCHANGED <<outState, outErr, closeRequested, consumerEnd>>
  /\ UNCHANGED <<n, srcLen, srcState, srcRead, cancelCalls, exBatch, ccBatch,
                 cancelAlg, ccReason, ccErr, started>>

\* Lines 93-98: the read reported done at index pullIdx; cancel every
\* reader with a reason naming that index and await the batch.
PullOnDone ==
  /\ UNCHANGED ltVars
  /\ pullPc = "settled"
  /\ readRes.kind = "done"
  /\ CancelAllReaders(EndedReason(pullIdx))
  /\ exBatch' = [j \in Src |-> CancelPromise(j)]
  /\ pullPc' = "cancelling"
  /\ readRes' = NoRes
  /\ UNCHANGED <<n, srcLen, srcRead, readCalls, pullIdx, ccBatch, cancelAlg,
                 ccReason, ccErr, started, pulling, pullAgain, closeRequested,
                 outState, outErr, outQueue, readPending, delivered,
                 consumerEnd>>

\* Mutant of ThrownByRead: the rejection is replaced by another error.
MutThrownByRead(i) == TypeError

\* Line 92: what `await readers[i].read()` throws when the read rejects,
\* the rejection value itself (pull has no try/catch).
ThrownByRead(i) == ReadError(i)

\* Line 92: the awaited read rejected; pull throws and its promise rejects.
PullOnError ==
  /\ UNCHANGED ltVars
  /\ pullPc = "settled"
  /\ readRes.kind = "error"
  /\ PullRejects(ThrownByRead(pullIdx))
  /\ UNCHANGED <<n, srcLen, srcState, srcRead, readCalls, cancelCalls,
                 pullIdx, exBatch, ccBatch, cancelAlg, ccReason, ccErr,
                 started>>

\* Mutant of CancelsAwaited: the batch is not awaited.
MutCancelsAwaited(batch) == TRUE

\* Whether the await of line 94 lets pull go on: Promise.all has settled.
CancelsAwaited(batch) == AllSettled(batch)

\* Lines 94-100: the awaited Promise.all settled. A rejection makes pull
\* throw; otherwise controller.close() and return.
PullAfterCancels ==
  /\ UNCHANGED ltVars
  /\ pullPc = "cancelling"
  /\ CancelsAwaited(exBatch)
  /\ IF AllRejected(exBatch)
     THEN \E j \in Src :
            /\ exBatch[j] = "rejected"
            /\ PullRejects(SrcError(j))
            /\ UNCHANGED <<pullIdx, readCalls>>
     ELSE IF ~CanCloseOrEnqueue(outState, closeRequested)
          THEN /\ PullRejects(TypeError)
               /\ UNCHANGED <<pullIdx, readCalls>>
          ELSE /\ closeRequested' = TRUE
               /\ IF outQueue = <<>>
                  THEN /\ outState' = "closed"
                       /\ readPending' = FALSE
                       /\ consumerEnd' = IF readPending THEN "done"
                                         ELSE consumerEnd
                  ELSE UNCHANGED <<outState, readPending, consumerEnd>>
               /\ ReturnAfterClose(IF outQueue = <<>> THEN "closed"
                                    ELSE outState, outQueue)
               /\ UNCHANGED <<outErr, outQueue, delivered>>
  /\ UNCHANGED <<n, srcLen, srcState, srcRead, cancelCalls, exBatch, ccBatch,
                 cancelAlg, ccReason, ccErr, started>>

\* ---------------------------------------------------------- cancel (105-107)
\* Mutant of CancelAlgorithm: the consumer's cancel is not forwarded to the
\* readers.
MutCancelAlgorithm(reason) ==
  /\ cancelAlg' = "fulfilled"
  /\ UNCHANGED <<cancelCalls, srcState, ccBatch, pullPc, readRes>>

\* The cancel algorithm of the merged stream: cancel every reader with the
\* consumer's reason and await the batch. A read pending on a reader that
\* is cancelled resolves with done.
CancelAlgorithm(reason) ==
  /\ CancelAllReaders(reason)
  /\ ccBatch' = [j \in Src |-> CancelPromise(j)]
  /\ cancelAlg' = "pending"
  /\ IF pullPc = "reading" /\ srcState[pullIdx] = "readable"
     THEN /\ pullPc' = "settled"
          /\ readRes' = [kind |-> "done", value |-> NoItem]
     ELSE UNCHANGED <<pullPc, readRes>>

\* The promise of the cancel algorithm settles (await of line 106).
CancelAlgSettle ==
  /\ UNCHANGED ltVars
  /\ cancelAlg = "pending"
  /\ CancelsAwaited(ccBatch)
  /\ IF AllRejected(ccBatch)
     THEN /\ cancelAlg' = "rejected"
          /\ \E j \in Src : ccBatch[j] = "rejected" /\ ccErr' = SrcError(j)
     ELSE /\ cancelAlg' = "fulfilled"
          /\ UNCHANGED ccErr
  /\ UNCHANGED <<n, srcLen, srcState, srcRead, readCalls, cancelCalls, pullPc,
                 pullIdx, readRes, exBatch, ccBatch, ccReason, started,
                 pulling, pullAgain, closeRequested, outState, outErr,
                 outQueue, readPending, delivered, consumerEnd>>

\* ------------------------------------------- the merged stream's platform
\* The start promise of the new ReadableStream (line 89) fulfils: the
\* controller is started and makes its first pull if one is needed.
Start ==
  /\ UNCHANGED ltVars
  /\ ~started
  /\ started' = TRUE
  /\ IF CanCloseOrEnqueue(outState, closeRequested)
        /\ (readPending \/ HighWaterMark - Len(outQueue) > 0)
     THEN /\ InvokePull
          /\ pullAgain' = FALSE
     ELSE UNCHANGED <<pulling, pullIdx, readCalls, pullPc, readRes, pullAgain>>
  /\ UNCHANGED <<n, srcLen, srcState, srcRead, cancelCalls, exBatch, ccBatch,
                 cancelAlg, ccReason, ccErr, closeRequested, outState, outErr,
                 outQueue, readPending, delivered, consumerEnd>>

\* [[PullSteps]] tail: a pull is wanted; made now, or recorded in
\* [[pullAgain]] while one is running.
PullIfNeededOrAgain(st, cr, q, rp) ==
  IF pulling
  THEN /\ pullAgain' = (pullAgain \/ ShouldCallPull(st, cr, q, rp))
       /\ UNCHANGED <<pulling, pullIdx, readCalls, pullPc, readRes>>
  ELSE CallPullIfNeeded(st, cr, q, rp)

\* The consumer reads the merged output (one read request at a time).
ConsumerRead ==
  /\ UNCHANGED ltVars
  /\ ~readPending
  /\ \/ /\ outState = "closed"
        /\ consumerEnd' = "done"
        /\ UNCHANGED <<outState, outQueue, readPending, delivered, pulling,
                       pullIdx, readCalls, pullPc, readRes, pullAgain>>
     \/ /\ outState = "errored"
        /\ consumerEnd' = "error"
        /\ UNCHANGED <<outState, outQueue, readPending, delivered, pulling,
                       pullIdx, readCalls, pullPc, readRes, pullAgain>>
     \/ /\ outState = "readable"
        /\ outQueue # <<>>
        /\ delivered' = Append(delivered, Head(outQueue))
        /\ outQueue' = Tail(outQueue)
        /\ IF closeRequested /\ Tail(outQueue) = <<>>
           THEN /\ outState' = "closed"
                /\ UNCHANGED <<pulling, pullIdx, readCalls, pullPc, readRes,
                               pullAgain>>
           ELSE /\ PullIfNeededOrAgain(outState, closeRequested,
                                       Tail(outQueue), FALSE)
                /\ UNCHANGED outState
        /\ UNCHANGED <<readPending, consumerEnd>>
     \/ /\ outState = "readable"
        /\ outQueue = <<>>
        /\ readPending' = TRUE
        /\ PullIfNeededOrAgain(outState, closeRequested, outQueue, TRUE)
        /\ UNCHANGED <<outState, outQueue, delivered, consumerEnd>>
  /\ UNCHANGED <<n, srcLen, srcState, srcRead, cancelCalls, exBatch, ccBatch,
                 cancelAlg, ccReason, ccErr, started, closeRequested, outErr>>

\* The consumer cancels the merged output with a reason
\* (ReadableStreamCancel): a closed or errored output answers at once and
\* runs nothing; a readable one is closed, its queue reset and the cancel
\* algorithm run.
ConsumerCancel(reason) ==
  /\ UNCHANGED ltVars
  /\ \/ /\ outState # "readable"
        /\ UNCHANGED <<srcState, cancelCalls, ccBatch, cancelAlg, ccReason,
                       pullPc, readRes, outState, outQueue, readPending,
                       consumerEnd>>
     \/ /\ outState = "readable"
        /\ outState' = "closed"
        /\ outQueue' = <<>>
        /\ readPending' = FALSE
        /\ consumerEnd' = IF readPending THEN "done" ELSE consumerEnd
        /\ ccReason' = reason
        /\ CancelAlgorithm(reason)
  /\ UNCHANGED <<n, srcLen, srcRead, readCalls, pullIdx, exBatch, ccErr,
                 started, pulling, pullAgain, closeRequested, outErr,
                 delivered>>

\* ------------------------------------------------------------------ Next
ZipNext ==
  \/ Start
  \/ SrcReadSettle
  \/ \E j \in Src : \E res \in {"fulfilled", "rejected"} :
        SrcCancelSettle(j, res)
  \/ PullOnValue
  \/ PullOnDone
  \/ PullOnError
  \/ PullAfterCancels
  \/ CancelAlgSettle
  \/ ConsumerRead
  \/ \E reason \in UserReasons : ConsumerCancel(reason)

\* The merger held still while the limiter is examined.
ZipIdle ==
  /\ n = 1
  /\ srcLen = [i \in {0} |-> 0]
  /\ srcState = [i \in {0} |-> "readable"]
  /\ srcRead = [i \in {0} |-> 0]
  /\ readCalls = [i \in {0} |-> 0]
  /\ cancelCalls = [i \in {0} |-> <<>>]
  /\ pullPc = "idle"
  /\ pullIdx = 0
  /\ readRes = NoRes
  /\ exBatch = [i \in {0} |-> "none"]
  /\ ccBatch = [i \in {0} |-> "none"]
  /\ cancelAlg = "none"
  /\ ccReason = NoReason
  /\ ccErr = NoErr
  /\ started = FALSE
  /\ pulling = FALSE
  /\ pullAgain = FALSE
  /\ closeRequested = FALSE
  /\ outState = "readable"
  /\ outErr = NoErr
  /\ outQueue = <<>>
  /\ readPending = FALSE
  /\ delivered = <<>>
  /\ consumerEnd = "none"

\* =================================================== LimitedTransformStream
Chunks == {"a", "b"}
SeqsUpTo(S, k) == UNION {[1 .. m -> S] : m \in 0 .. k}

\* `Exceeded chunk limit of '${size}'` (line 205): the message carries size.
RangeError(k) == <<"RangeError", k>>

\* State after `new LimitedTransformStream(size, options)` with a source
\* piped through it: #read = 0 (line 189), backpressure set.
LtInit ==
  /\ size \in 1 .. MaxSize
  /\ optError \in BOOLEAN
  /\ ltSrc \in SeqsUpTo(Chunks, MaxChunks)
  /\ ltPos = 0
  /\ read = 0
  /\ ltEnqueued = <<>>
  /\ ltBackpressure = TRUE
  /\ ltWritable = "writable"
  /\ ltReadable = "readable"
  /\ ltErr = NoErr
  /\ ltQueue = <<>>
  /\ ltCloseRequested = FALSE
  /\ ltReadPending = FALSE
  /\ ltDelivered = <<>>
  /\ ltEnd = "none"

\* The limiter held still while the merger is examined.
LtIdle ==
  /\ size = 1
  /\ optError = FALSE
  /\ ltSrc = <<>>
  /\ ltPos = 0
  /\ read = 0
  /\ ltEnqueued = <<>>
  /\ ltBackpressure = TRUE
  /\ ltWritable = "writable"
  /\ ltReadable = "readable"
  /\ ltErr = NoErr
  /\ ltQueue = <<>>
  /\ ltCloseRequested = FALSE
  /\ ltReadPending = FALSE
  /\ ltDelivered = <<>>
  /\ ltEnd = "none"

\* ReadableStreamDefaultControllerClose on the readable side.
LtControllerClose ==
  /\ ltCloseRequested' = TRUE
  /\ IF ltQueue = <<>>
     THEN /\ ltReadable' = "closed"
          /\ ltReadPending' = FALSE
          /\ ltEnd' = IF ltReadPending THEN "done" ELSE ltEnd
     ELSE UNCHANGED <<ltReadable, ltReadPending, ltEnd>>

\* Line 211, controller.enqueue(chunk): the chunk goes to the pending read
\* request or into the queue; backpressure is recomputed.
LtEnqueue(chunk) ==
  LET q2 == IF ltReadPending THEN ltQueue ELSE Append(ltQueue, chunk)
  IN /\ ltEnqueued' = Append(ltEnqueued, chunk)
     /\ ltQueue' = q2
     /\ ltDelivered' = IF ltReadPending THEN Append(ltDelivered, chunk)
                       ELSE ltDelivered
     /\ ltReadPending' = FALSE
     /\ ltBackpressure' = ~(LtReadableHWM - Len(q2) > 0)
     /\ UNCHANGED <<ltWritable, ltReadable, ltErr, ltCloseRequested, ltEnd>>

\* Mutant of LtTerminate: the chunk over the limit is dropped and the
\* stream left running.
MutLtTerminate ==
  UNCHANGED <<ltEnqueued, ltBackpressure, ltWritable, ltReadable, ltErr,
              ltQueue, ltCloseRequested, ltReadPending, ltDelivered, ltEnd>>

\* Line 207, controller.terminate(): the readable side is closed and the
\* writable side errored, so that no later chunk is written.
LtTerminate ==
  /\ LtControllerClose
  /\ ltWritable' = "errored"
  /\ ltBackpressure' = FALSE
  /\ UNCHANGED <<ltEnqueued, ltQueue, ltDelivered, ltErr>>

\* Line 205, the throw: TransformStreamError errors both sides.
LtThrow(e) ==
  /\ ltReadable' = "errored"
  /\ ltErr' = e
  /\ ltQueue' = <<>>
  /\ ltReadPending' = FALSE
  /\ ltEnd' = IF ltReadPending THEN "error" ELSE ltEnd
  /\ ltWritable' = "errored"
  /\ ltBackpressure' = FALSE
  /\ UNCHANGED <<ltEnqueued, ltDelivered, ltCloseRequested>>

\* Mutant of LimitReached: the `+ 1` is missing, one chunk too many passes.
MutLimitReachedLate == read > size

\* Mutant of LimitReached: the comparison is off by one.
MutLimitReached == (read + 1) >= size

\* Line 203: accepting this chunk would exceed the limit.
LimitReached == (read + 1) > size

\* Mutant of ThrowsOnLimit: options.error is ignored.
MutThrowsOnLimit == FALSE

\* Line 204: the policy on the limit, throw or terminate.
ThrowsOnLimit == optError

\* Lines 202-213, the transform callback.
Transform(chunk) ==
  IF LimitReached
  THEN /\ IF ThrowsOnLimit THEN LtThrow(RangeError(size)) ELSE LtTerminate
       /\ UNCHANGED read
  ELSE /\ read' = read + 1
       /\ LtEnqueue(chunk)

\* The pipe writes the next source chunk; the writable side hands it to
\* transform once the readable side has asked for a chunk.
LtWrite ==
  /\ ltWritable = "writable"
  /\ ltPos < Len(ltSrc)
  /\ ~ltBackpressure
  /\ ltPos' = ltPos + 1
  /\ Transform(ltSrc[ltPos + 1])
  /\ UNCHANGED <<size, optError, ltSrc>>
  /\ UNCHANGED zipVars

\* The source has ended and every chunk was transformed: the pipe closes
\* the writable side, which closes the readable side (no flush callback).
LtSourceEnd ==
  /\ ltWritable = "writable"
  /\ ltPos = Len(ltSrc)
  /\ ltWritable' = "closed"
  /\ LtControllerClose
  /\ UNCHANGED <<size, optError, ltSrc, ltPos, read, ltEnqueued,
                 ltBackpressure, ltErr, ltQueue, ltDelivered>>
  /\ UNCHANGED zipVars

\* The consumer reads the readable side (one read request at a time). A
\* read on the empty queue pulls, which releases the backpressure.
LtConsumerRead ==
  /\ ~ltReadPending
  /\ IF ltReadable = "closed"
     THEN /\ ltEnd' = "done"
          /\ UNCHANGED <<ltReadable, ltQueue, ltReadPending, ltDelivered,
                         ltBackpressure>>
     ELSE IF ltReadable = "errored"
     THEN /\ ltEnd' = "error"
          /\ UNCHANGED <<ltReadable, ltQueue, ltReadPending, ltDelivered,
                         ltBackpressure>>
     ELSE IF ltQueue # <<>>
     THEN /\ ltDelivered' = Append(ltDelivered, Head(ltQueue))
          /\ ltQueue' = Tail(ltQueue)
          /\ ltReadable' = IF ltCloseRequested /\ Tail(ltQueue) = <<>>
                           THEN "closed" ELSE ltReadable
          /\ UNCHANGED <<ltReadPending, ltEnd, ltBackpressure>>
     ELSE /\ ltReadPending' = TRUE
          /\ ltBackpressure' = FALSE
          /\ UNCHANGED <<ltReadable, ltQueue, ltDelivered, ltEnd>>
  /\ UNCHANGED <<size, optError, ltSrc, ltPos, read, ltEnqueued, ltWritable,
                 ltErr, ltCloseRequested>>
  /\ UNCHANGED zipVars

LtNext ==
  \/ LtWrite
  \/ LtSourceEnd
  \/ LtConsumerRead

\* ========================================================= specifications
Init == ZipInit /\ LtIdle

Next == ZipNext

Spec == Init /\ [][Next]_vars

InitLimited == LtInit /\ ZipIdle

SpecLimited == InitLimited /\ [][LtNext]_vars


\* ================================================================= claims
Min(a, b) == IF a <= b THEN a ELSE b

IsPrefix(s, t) == Len(s) <= Len(t) /\ SubSeq(t, 1, Len(s)) = s

\* reader j has been cancelled with this reason
HasCancel(j, reason) ==
  \E k \in 1 .. Len(cancelCalls[j]) : cancelCalls[j][k] = reason

\* no read of a source and no cancel of a source has failed
NoFailure ==
  \A j \in Src : /\ srcState[j] # "errored"
                 /\ exBatch[j] # "rejected"
                 /\ ccBatch[j] # "rejected"

\* m = min(L) and j = the smallest index with L_j = m
MinLen == CHOOSE m \in {srcLen[i] : i \in Src} : \A i \in Src : m <= srcLen[i]
FirstShortest ==
  CHOOSE j \in Src :
    srcLen[j] = MinLen /\ \A i \in Src : srcLen[i] = MinLen => j <= i

\* MinLen full rounds in index order, then item MinLen of the sources before
\* the first shortest one.
ExpectedOutput ==
  [k \in 1 .. (MinLen * n + FirstShortest) |->
     IF k <= MinLen * n
     THEN Item((k - 1) % n, (k - 1) \div n)
     ELSE Item(k - MinLen * n - 1, MinLen)]

\* C1: when no read and no cancel fails and the consumer does not cancel,
\* the output never errors, what has been enqueued is always a prefix of the
\* expected interleaving, and once the consumer has seen the end of the
\* stream it has received exactly the expected interleaving: MinLen full
\* rounds in index order followed by item MinLen of sources 0..j-1.
C1_OutputContent ==
  (NoFailure /\ cancelAlg = "none") =>
    /\ outState # "errored"
    /\ consumerEnd # "error"
    /\ IsPrefix(delivered \o outQueue, ExpectedOutput)
    /\ (consumerEnd = "done" => delivered = ExpectedOutput)

\* C1 witness: sources of lengths 2 and 1 drained to the end; the item read
\* from source 0 in the round where source 1 ended is retained.
C1_Witness ==
  /\ n = 2
  /\ srcLen[0] = 2
  /\ srcLen[1] = 1
  /\ NoFailure
  /\ cancelAlg = "none"
  /\ consumerEnd = "done"
  /\ delivered = <<Item(0, 0), Item(1, 0), Item(0, 1)>>

C2_Inv ==
  /\ pullPc = "cancelling" =>
       \A j \in Src : HasCancel(j, EndedReason(pullIdx))
  /\ closeRequested =>
       \E i \in Src :
         \A j \in Src : /\ HasCancel(j, EndedReason(i))
                        /\ exBatch[j] = "fulfilled"
  /\ outState = "closed" => (closeRequested \/ cancelAlg # "none")

C2_Step ==
  (pullPc = "settled" /\ readRes.kind = "done" /\ pullPc' # "settled") =>
    \A j \in Src :
      cancelCalls'[j] = Append(cancelCalls[j], EndedReason(pullIdx))

\* C2: the step of pull that takes a read reporting done at index i issues
\* a cancel with the reason naming i on every reader; while pull awaits the
\* batch every reader has that cancel; controller.close() has happened only
\* when every reader has the cancel naming one index and every cancel of the
\* batch is fulfilled; an output that is closed was closed either so or by
\* the consumer's cancel.
C2_ExhaustionCancel == []C2_Inv /\ [][C2_Step]_vars

\* C2 witness: source 1 ended first, source 0 (already read in the round)
\* was cancelled with the reason naming index 1, and the output is closed.
C2_Witness ==
  /\ n = 2
  /\ closeRequested
  /\ outState = "closed"
  /\ cancelAlg = "none"
  /\ HasCancel(0, EndedReason(1))
  /\ HasCancel(1, EndedReason(1))

C3_Inv ==
  cancelAlg # "none" =>
    \A j \in Src : HasCancel(j, ccReason) /\ srcState[j] # "readable"

C3_Step == cancelAlg # "none" => readCalls' = readCalls

\* C3: once the consumer has cancelled the readable output with reason R,
\* every reader has been cancelled with R and no source is readable any
\* more, and from then on no read is issued on any reader (so no round
\* starts).
C3_ConsumerCancel == []C3_Inv /\ [][C3_Step]_vars

\* C3 witness: the consumer cancelled mid-round, while the read on source 1
\* was pending and source 1 still had items; that read resolved with done.
C3_Witness ==
  /\ n = 2
  /\ cancelAlg # "none"
  /\ pullPc = "settled"
  /\ pullIdx = 1
  /\ readRes.kind = "done"
  /\ srcRead[1] < srcLen[1]
  /\ \A j \in Src : HasCancel(j, ccReason)

\* C4: the chunks handed to controller.enqueue are always the first
\* min(number of chunks transformed, size) source chunks, unchanged and in
\* order, and once the writable side has ended (source ended, terminated or
\* thrown) they are exactly the first min(m, size) source chunks.
C4_ForwardedOutput ==
  /\ ltEnqueued = SubSeq(ltSrc, 1, Min(ltPos, size))
  /\ ltWritable # "writable" =>
       ltEnqueued = SubSeq(ltSrc, 1, Min(Len(ltSrc), size))

\* C4 witness: chunk size+1 has arrived and was not enqueued.
C4_Witness ==
  /\ size = 2
  /\ ltPos = size + 1
  /\ ltWritable = "errored"
  /\ ltEnqueued = SubSeq(ltSrc, 1, size)
  /\ ltDelivered = ltEnqueued

\* C5: (a) with m <= size the output never errors and is closed exactly
\* when the source has ended; (b) with m > size and options.error off the
\* output never errors and is closed exactly when chunk size+1 has arrived;
\* (c) with m > size and options.error on the output is never closed and is
\* errored, with the RangeError carrying size, exactly when chunk size+1
\* has arrived.
C5_TerminalOutcome ==
  LET m == Len(ltSrc)
  IN /\ m <= size =>
          /\ ltReadable # "errored"
          /\ ltWritable # "errored"
          /\ ltErr = NoErr
          /\ ltEnd # "error"
          /\ (ltReadable = "closed" <=> ltWritable = "closed")
     /\ (m > size /\ ~optError) =>
          /\ ltReadable # "errored"
          /\ ltErr = NoErr
          /\ ltEnd # "error"
          /\ (ltReadable = "closed" <=> ltPos = size + 1)
     /\ (m > size /\ optError) =>
          /\ ltReadable # "closed"
          /\ ltEnd # "done"
          /\ (ltReadable = "errored" <=> ltPos = size + 1)
          /\ (ltReadable = "errored" => ltErr = RangeError(size))

\* C5 witness: error mode, the consumer received size chunks and then the
\* RangeError.
C5_Witness ==
  /\ optError
  /\ Len(ltSrc) > size
  /\ ltReadable = "errored"
  /\ ltErr = RangeError(size)
  /\ ltEnd = "error"
  /\ Len(ltDelivered) = size

\* a read of a source has returned end-of-stream
Exhausted ==
  \/ readRes.kind = "done"
  \/ \E j \in Src : \E i \in Src : HasCancel(j, EndedReason(i))

\* C6: once a read of a source has returned end-of-stream, no step issues a
\* read on any reader.
C6_NoReadAfterExhaustion == [][Exhausted => readCalls' = readCalls]_vars

\* C6 witness: after the exhaustion the consumer read the closed output to
\* its end and pull is over.
C6_Witness ==
  /\ Exhausted
  /\ closeRequested
  /\ outState = "closed"
  /\ consumerEnd = "done"
  /\ pullPc = "idle"
  /\ readCalls[0] = 2

\* C7: cancel is invoked on each source reader at most once.
C7_AtMostOneCancel == \A j \in Src : Len(cancelCalls[j]) <= 1

\* C8: whenever the output is closed or errored, cancel has been issued on
\* every source reader; stated here for the readers whose source has not
\* itself failed (the others of the claim), so that a violation is a source
\* left unreleased.
C8_ReleasedOnTermination ==
  outState # "readable" =>
    \A j \in Src : srcState[j] # "errored" => cancelCalls[j] # <<>>

\* C9: the merger has completed its termination (pull is past the await of
\* its batch, or the consumer's cancel call has settled) only when every
\* cancel of the batch has settled.
C9_BatchAwaited ==
  /\ cancelAlg \in {"fulfilled", "rejected"} =>
       \A j \in Src : ccBatch[j] # "pending"
  /\ ((\E j \in Src : exBatch[j] # "none") /\ pullPc # "cancelling") =>
       \A j \in Src : exBatch[j] # "pending"

\* C10: when a cancel of the exhaustion batch has failed and pull is past
\* its await, the output is errored with such a failure; when a cancel of
\* the consumer's batch has failed and the consumer's cancel call has
\* settled, it is rejected with such a failure.
C10_FailuresPropagated ==
  /\ ((\E j \in Src : exBatch[j] = "rejected") /\ pullPc # "cancelling") =>
       /\ outState = "errored"
       /\ \E j \in Src : exBatch[j] = "rejected" /\ outErr = CancelError(j)
  /\ ((\E j \in Src : ccBatch[j] = "rejected") /\ cancelAlg # "pending") =>
       /\ cancelAlg = "rejected"
       /\ \E j \in Src : ccBatch[j] = "rejected" /\ ccErr = SrcError(j)


\* the rejection of a read is still to be taken by pull
ReadErrorUnhandled == pullPc = "settled" /\ readRes.kind = "error"

\* number of items enqueued on the output and not discarded
Held == Len(delivered) + Len(outQueue)

\* C11 as claimed: once pull has taken the rejection of the read of source
\* i, the output is errored with that failure.
C11_ReadFailureSurfaced ==
  \A i \in Src :
    (srcState[i] = "errored" /\ ~ReadErrorUnhandled) =>
      (outState = "errored" /\ outErr = ReadError(i))

C11_Inv ==
  \A i \in Src :
    (srcState[i] = "errored" /\ ~ReadErrorUnhandled) =>
      \/ outState = "errored" /\ outErr = ReadError(i)
      \/ /\ outState = "closed"
         /\ cancelAlg # "none"
         /\ ccBatch[i] = "rejected"
         /\ SrcError(i) = ReadError(i)

C11_Step ==
  (\E i \in Src : srcState[i] = "errored") =>
    /\ readCalls' = readCalls
    /\ Len(delivered') + Len(outQueue') <= Held

\* C11 (amended): once pull has taken the rejection of the read of source
\* i, the output is errored with that failure unchanged, unless the
\* consumer cancelled the output between the rejection and pull taking it,
\* in which case the output stays closed and the cancel of reader i in the
\* consumer's batch is rejected with that failure; and from the rejection
\* on no read is issued on any reader and no item is added to the output.
C11_ReadFailureAborts == []C11_Inv /\ [][C11_Step]_vars

\* C11 witness: the read of source 1 failed in the second round, after
\* three items had been enqueued, and the output is errored with it.
C11_Witness ==
  /\ n = 2
  /\ srcState[1] = "errored"
  /\ srcRead[0] = 2
  /\ srcRead[1] = 1
  /\ outState = "errored"
  /\ outErr = ReadError(1)
  /\ consumerEnd = "error"


\* total of a function of the sources
RECURSIVE SumUpTo(_, _)
SumUpTo(f, k) == IF k < 0 THEN 0 ELSE f[k] + SumUpTo(f, k - 1)

TotalReadCalls == SumUpTo(readCalls, n - 1)

\* the round is complete: the read of the last reader gave a value
RoundComplete ==
  pullPc = "settled" /\ readRes.kind = "value" /\ pullIdx = n - 1

C12_Inv ==
  /\ \A a \in Src : \A b \in Src :
       a < b => readCalls[b] \in {readCalls[a] - 1, readCalls[a]}
  /\ pullPc = "reading" =>
       /\ \A j \in Src : j <= pullIdx => readCalls[j] = readCalls[0]
       /\ \A j \in Src : j > pullIdx => readCalls[j] = readCalls[0] - 1

C12_Step ==
  \A i \in Src :
    readCalls'[i] # readCalls[i] =>
      /\ pullPc # "reading"
      /\ i = TotalReadCalls % n
      /\ readCalls' = [readCalls EXCEPT ![i] = @ + 1]
      /\ pullPc' = "reading" => pullIdx' = i
      /\ i > 0 => (pullPc = "settled" /\ readRes.kind = "value"
                   /\ pullIdx = i - 1)
      /\ i = 0 => (pullPc = "idle" \/ RoundComplete)

\* C12: a step issues at most one read, only while no read is pending, on
\* the reader next in the cyclic order 0,1,...,n-1,0,...; the read on
\* reader i > 0 is issued by the step that takes the value of reader i-1,
\* the read on reader 0 only when no pull is running or the round is
\* complete; the one pending read is on reader pullIdx, the readers up to
\* it have been read once more than those after it.
C12_SequentialReads == []C12_Inv /\ [][C12_Step]_vars

\* C12 witness: in the second round the read on reader 1 is pending.
C12_Witness ==
  /\ n = 2
  /\ pullPc = "reading"
  /\ pullIdx = 1
  /\ readCalls[0] = 2
  /\ readCalls[1] = 2

\* C13: the numbers of items read from any two sources differ by at most
\* 1, and an earlier source has read at least as many as a later one.
C13_BackpressureBalance ==
  \A a \in Src : \A b \in Src :
    a < b => srcRead[b] \in {srcRead[a] - 1, srcRead[a]}

\* C13 witness: source 0 is one item ahead of source 1 in the second round.
C13_Witness ==
  /\ n = 2
  /\ srcRead[0] = 2
  /\ srcRead[1] = 1


\* C14: a step taken while the output is closed or errored leaves its
\* state, its stored error, its queue and the items delivered unchanged:
\* the output reaches at most one terminal state, never leaves it and takes
\* no further item.
C14_SingleTerminalState ==
  [][outState # "readable" =>
       /\ outState' = outState
       /\ outErr' = outErr
       /\ outQueue' = outQueue
       /\ delivered' = delivered]_vars

\* C14 witness: the consumer's cancel closed the output while a read of
\* pull was pending; pull then resumed with done, cancelled the readers and
\* its controller.close() on the closed output threw; the output is still
\* closed.
C14_Witness ==
  /\ cancelAlg # "none"
  /\ outState = "closed"
  /\ ~closeRequested
  /\ pullPc = "idle"
  /\ \A j \in Src : HasCancel(j, EndedReason(0))
  /\ \A j \in Src : exBatch[j] = "fulfilled"

C15_Inv ==
  /\ 0 <= read
  /\ read <= size
  /\ read = Len(ltEnqueued)

C15_Step ==
  /\ read' >= read
  /\ (ltPos' # ltPos /\ read + 1 > size) => read' = read

\* C15: the counter satisfies 0 <= #read <= size and equals the number of
\* chunks handed to controller.enqueue; no step decreases it, and the
\* transform step that finds #read + 1 > size leaves it unchanged.
C15_CounterInvariant == []C15_Inv /\ [][C15_Step]_vars

\* C15 witness: the transform step for chunk size+1 has run and the counter
\* stayed at size.
C15_Witness ==
  /\ size = 2
  /\ ltPos = size + 1
  /\ read = size

\* a transform step has terminated the output or thrown instead of
\* forwarding its chunk
LimitHit == ltPos > Len(ltEnqueued)

\* C16: once a transform step has hit the limit, no step invokes transform
\* again or enqueues anything on the output.
C16_StopsAfterLimit ==
  [][LimitHit => (ltPos' = ltPos /\ ltEnqueued' = ltEnqueued)]_vars

\* C16 witness: the limit was hit with source chunks still left and the
\* consumer has read the output to its end.
C16_Witness ==
  /\ LimitHit
  /\ Len(ltSrc) >= ltPos + 1
  /\ ltEnd # "none"

\* items read from the sources and not delivered to the consumer
Buffered == SumUpTo(srcRead, n - 1) - Len(delivered)

\* C17: the number of items read from the sources and not yet delivered to
\* the consumer is at most n.
C17_BoundedBuffering == Buffered <= n

\* C17 witness: a full round of two sources sits in the queue.
C17_Witness ==
  /\ n = 2
  /\ Buffered = n
  /\ Len(outQueue) = 2

====
